---- MODULE Spec2Model ----
(***************************************************************************)
(* Model of the fastah/space data-generation tool: the RFC8805 geofeed     *)
(* pipeline of tools/main.go (GeoJSON variant, src/tools/main.go) and of   *)
(* its earlier flat variant (src/unnamed/part_000).                        *)
(*                                                                         *)
(* Text is modelled as a sequence of characters (one-character strings),   *)
(* an IP address as its sequence of bytes (4 for IPv4, 16 for IPv6), and a *)
(* prefix as the pair of the address as written and its bit count.         *)
(***************************************************************************)
EXTENDS Integers, Sequences, FiniteSets, TLC

VARIABLES
    variant,          \* "geojson" (src/tools/main.go) or "flat" (src/unnamed/part_000)
    feedIdx,          \* index into feeds of the feed being processed
    pc,               \* position of main inside the body of the feed loop
    rows,             \* rows returned by readCSVUrl for the current feed
    rowIdx,           \* index of the next row the row loop handles
    locationKey,      \* locationKey of the row handled last (main.go:81)
    locations,        \* map[string]netip.Addr, location key -> address
    sampleIps,        \* map[string][]netip.Addr, country -> addresses
    visibleCountries, \* map[string]bool, used as a set
    fc,               \* the FeatureCollection ipToGeoJson is building
    todo,             \* keys of locations the range loop of ipToGeoJson has not visited
    resp,             \* outcome of the http.Get of the current feed: error, status code
    run,              \* which run of the tool this is, when it is run twice
    prev,             \* what the first of two runs left on disk
    log,              \* what the world answered so far: feeds, file system, API
    disk,             \* per feed: directory made, content of the two files
    page              \* the web page in a visitor's browser: button, files loaded, events

vars == << variant, feedIdx, pc, rows, rowIdx, locationKey, locations, sampleIps,
           visibleCountries, fc, todo, resp, run, prev, log, disk, page >>

----------------------------------------------------------------------------
(* Text: strings package                                                   *)

Lower == << "a","b","c","d","e","f","g","h","i","j","k","l","m",
            "n","o","p","q","r","s","t","u","v","w","x","y","z" >>
Upper == << "A","B","C","D","E","F","G","H","I","J","K","L","M",
            "N","O","P","Q","R","S","T","U","V","W","X","Y","Z" >>

\* The characters of the model that take two bytes in UTF-8 (e-acute, E-acute).
TwoByteChars == { "e-acute", "E-acute" }

Letters == { Lower[i] : i \in 1..26 } \cup { Upper[i] : i \in 1..26 } \cup TwoByteChars

\* len(s) of Go: the number of bytes, not of characters.
RECURSIVE ByteLen(_)
ByteLen(s) ==
    IF s = << >> THEN 0
    ELSE (IF Head(s) \in TwoByteChars THEN 2 ELSE 1) + ByteLen(Tail(s))

UpperChar(c) ==
    IF \E i \in 1..26 : Lower[i] = c
    THEN Upper[CHOOSE i \in 1..26 : Lower[i] = c]
    ELSE IF c = "e-acute" THEN "E-acute" ELSE c

\* strings.ToUpper
ToUpper(s) == [ i \in 1..Len(s) |-> UpperChar(s[i]) ]

WhiteSpace == { " ", "\t" }

RECURSIVE TrimLeft(_)
TrimLeft(s) ==
    IF s # << >> /\ Head(s) \in WhiteSpace THEN TrimLeft(Tail(s)) ELSE s

RECURSIVE TrimRight(_)
TrimRight(s) ==
    IF s # << >> /\ s[Len(s)] \in WhiteSpace
    THEN TrimRight(SubSeq(s, 1, Len(s) - 1))
    ELSE s

\* strings.TrimSpace
TrimSpace(s) == TrimRight(TrimLeft(s))

RECURSIVE SplitFrom(_, _, _)
SplitFrom(s, sep, cur) ==
    IF s = << >> THEN << cur >>
    ELSE IF Head(s) = sep
         THEN << cur >> \o SplitFrom(Tail(s), sep, << >>)
         ELSE SplitFrom(Tail(s), sep, Append(cur, Head(s)))

\* strings.Split with a one-character separator; Split("", sep) is [""].
Split(s, sep) == SplitFrom(s, sep, << >>)

RECURSIVE Join(_, _)
\* strings.Join
Join(parts, sep) ==
    IF parts = << >> THEN << >>
    ELSE IF Len(parts) = 1 THEN parts[1]
    ELSE parts[1] \o << sep >> \o Join(Tail(parts), sep)

----------------------------------------------------------------------------
(* Text, as the claims speak of it.                                        *)

IndexOf(s, c) == IF \E i \in 1..Len(s) : s[i] = c
                 THEN CHOOSE i \in 1..Len(s) : s[i] = c /\ \A j \in 1..(i - 1) : s[j] # c
                 ELSE 0

\* A state column with its leading country prefix removed: the text up to
\* and including its first "-", if it holds one.
WithoutCountryPrefix(st) ==
    LET i == IndexOf(st, "-")
    IN  IF i = 0 THEN st ELSE SubSeq(st, i + 1, Len(st))

\* The number of times c occurs in s.
CountOf(s, c) == Cardinality({ i \in 1..Len(s) : s[i] = c })

TwoLetters(s) == Len(s) = 2 /\ \A i \in 1..Len(s) : s[i] \in Letters

----------------------------------------------------------------------------
(* feedColumnsToKey (main.go:159-176). Go indexes cols from 0: cols[1] is  *)
(* the second column, here cols[2].                                        *)

\* The reads cols[1], cols[2], cols[3] panic (index out of range) on a short row.
KeyPanics(cols) == Len(cols) < 4

\* The state column after the split on "-" (main.go:169-174).
StateOfSplit(st) ==
    LET splitstate == Split(st, "-")
    IN  IF Len(splitstate) > 1 THEN splitstate[2] ELSE splitstate[1]

\* The length check moved after the split, as a slip in the order would have it.
StateTooLongAfterSplit(st) == ByteLen(StateOfSplit(st)) > 5

\* The length check off by one.
StateTooLongOffByOne(st) == ByteLen(st) > 6

\* main.go:166
StateTooLong(st) == ByteLen(st) > 5

\* The key joined without its state component.
feedColumnsToKeyNoState(cols) ==
    LET cc   == ToUpper(TrimSpace(cols[2]))
        st   == ToUpper(TrimSpace(cols[3]))
        city == TrimSpace(cols[4])
    IN  IF ByteLen(cc) # 2 THEN << >>
        ELSE IF StateTooLong(st) THEN << >>
        ELSE Join(<< cc, city >>, ",")

\* The empty sequence is the empty (reject) key "".
feedColumnsToKey(cols) ==
    LET cc   == ToUpper(TrimSpace(cols[2]))
        st   == ToUpper(TrimSpace(cols[3]))
        city == TrimSpace(cols[4])
    IN  IF ByteLen(cc) # 2 THEN << >>
        ELSE IF StateTooLong(st) THEN << >>
        ELSE Join(<< cc, StateOfSplit(st), city >>, ",")

----------------------------------------------------------------------------
(* net/netip and netipx, as main uses them (main.go:78-91). Column 0 of a  *)
(* row is the text of a prefix: the record [ok, addr, bits] stands for     *)
(* "addr/bits" as written (host bits included), and ok = FALSE for a text  *)
(* that is no prefix at all.                                               *)

Prefix4(a, b, c, d, bits) == [ ok |-> TRUE, addr |-> << a, b, c, d >>, bits |-> bits ]

BitLen(addr) == 8 * Len(addr)

\* netip.ParsePrefix fails on a text that is no address, and on a bit count
\* outside 0..BitLen.
ParseFails(text) ==
    \/ ~text.ok
    \/ text.bits < 0
    \/ text.bits > BitLen(text.addr)

\* prefix.IsValid(): every prefix ParsePrefix returns without error is valid.
IsValid(prefix) == prefix.bits >= 0 /\ prefix.bits <= BitLen(prefix.addr)

\* Addr.IsPrivate(): 10/8, 172.16/12, 192.168/16 and fc00::/7.
IsPrivate(addr) ==
    IF Len(addr) = 4
    THEN \/ addr[1] = 10
         \/ (addr[1] = 172 /\ addr[2] \div 16 = 1)
         \/ (addr[1] = 192 /\ addr[2] = 168)
    ELSE addr[1] \div 2 = 126

\* prefix.IsSingleIP()
IsSingleIP(prefix) == prefix.bits = BitLen(prefix.addr)

Pow2(n) == 2 ^ n

\* The number of bits of byte i (from 1) that a mask of the given length keeps.
KeptBits(bits, i) ==
    IF bits >= 8 * i THEN 8
    ELSE IF bits <= 8 * (i - 1) THEN 0
    ELSE bits - 8 * (i - 1)

\* prefix.Masked().Addr(): the host bits zeroed.
Masked(prefix) ==
    [ i \in 1..Len(prefix.addr) |->
        prefix.addr[i] - (prefix.addr[i] % Pow2(8 - KeptBits(prefix.bits, i))) ]

\* The range taken from the address as written, without masking it.
RangeFromUnmasked(prefix) == prefix.addr

\* netipx.RangeOfPrefix(prefix).From(): the prefix is masked first.
RangeFrom(prefix) == Masked(prefix)

\* The zero Addr, which Next returns past the last address.
ZeroAddr == << >>

RECURSIVE Next1(_)
\* Addr.Next(): the address plus one, with carry.
Next1(addr) ==
    IF addr = << >> THEN ZeroAddr
    ELSE LET n == Len(addr)
         IN  IF addr[n] < 255
             THEN [ addr EXCEPT ![n] = addr[n] + 1 ]
             ELSE LET hi == Next1(SubSeq(addr, 1, n - 1))
                  IN  IF hi = ZeroAddr THEN ZeroAddr ELSE Append(hi, 0)

\* One address added whatever the prefix, a single-address prefix included.
RepresentativeIPAlwaysNext(prefix) == Next1(RangeFrom(prefix))

\* main.go:86-91
RepresentativeIP(prefix) ==
    IF ~IsSingleIP(prefix) THEN Next1(RangeFrom(prefix)) ELSE prefix.addr

----------------------------------------------------------------------------
(* Defaults of the variables a specification does not use.                 *)

\* A file: absent, written whole, or truncated by a write that failed.
NoMeta == [ provider |-> "", feedUrl |-> "", visibleCountries |-> << >> ]

AbsentMeta == [ st |-> "absent", data |-> NoMeta ]

AbsentSamples == [ st |-> "absent", data |-> << >> ]

TruncatedMeta == [ st |-> "truncated", data |-> NoMeta ]

TruncatedSamples == [ st |-> "truncated", data |-> << >> ]

Written(data) == [ st |-> "written", data |-> data ]

EmptyMap == << >>

NumFeeds == 2

EmptyDisk == [ f \in 1..NumFeeds |-> [ dir |-> FALSE, meta |-> AbsentMeta, samples |-> AbsentSamples ] ]

\* No page opened in a browser.
NoPage == [ scan |-> "closed" ]

\* No request made yet.
NoResp == [ err |-> FALSE, status |-> 0 ]

----------------------------------------------------------------------------
(* main (main.go:57-153, part_000:51-136): the loop over the feeds.        *)

feeds ==
    << [ key |-> "starlink", providerName |-> "SpaceX Starlink",
         url |-> "https://geoip.starlinkisp.net/feed.csv" ],
       [ key |-> "viasat", providerName |-> "Viasat",
         url |-> "https://raw.githubusercontent.com/Viasat/geofeed/main/geofeed.csv" ] >>

MapPut(m, k, v) == [ x \in DOMAIN m \cup { k } |-> IF x = k THEN v ELSE m[x] ]

\* m[k] of a Go map of slices: nil (empty) for a missing key.
MapGetList(m, k) == IF k \in DOMAIN m THEN m[k] ELSE << >>

\* The orders in which a range over a Go map may visit its keys.
Orders(S) ==
    { s \in [ 1..Cardinality(S) -> S ] :
        \A i, j \in 1..Cardinality(S) : i # j => s[i] # s[j] }

\* The rows of a feed, longest first cut at MaxRows; csv.Reader.ReadAll returns
\* records of one field count only (FieldsPerRecord = 0).
MaxRows == 2

BodiesOf(pool) ==
    { b \in UNION { [ 1..n -> pool ] : n \in 0..MaxRows } :
        \A i, j \in 1..Len(b) : Len(b[i]) = Len(b[j]) }

Unparseable == [ ok |-> FALSE, addr |-> << >>, bits |-> 0 ]

US == << "U","S" >>
CA == << "C","A" >>

FeedRows ==
    { << Prefix4(98, 97, 0, 0, 16), US, << >>, << >> >>,
      << Prefix4(98, 97, 8, 9, 24), << "u","s" >>, << >>, << >> >>,
      << Prefix4(11, 0, 0, 0, 7), CA, << "C","A","-","O","N" >>, << "T" >> >>,
      << Unparseable, US, << >>, << >> >>,
      << Prefix4(98, 97, 0, 0, 16), US >>,
      << Unparseable >> }

\* What a server answers with a status other than 200: nothing, an error
\* page, or a feed all the same.
ErrorBodies ==
    { << >>, << << Unparseable >> >>,
      << << Prefix4(98, 97, 0, 0, 16), US, << >>, << >> >> >> }

StatusOK == 200

\* The statuses other than 200 a server answers with.
OtherStatuses == { 404 }

\* `continue`, or the end of the loop body: on to the next feed; the maps and
\* the rows of this feed go out of scope.
NextFeed ==
    /\ feedIdx' = feedIdx + 1
    /\ pc' = IF feedIdx + 1 > NumFeeds THEN "done" ELSE "fetch"
    /\ rows' = << >>
    /\ rowIdx' = 1
    /\ locationKey' = << >>
    /\ locations' = EmptyMap
    /\ sampleIps' = EmptyMap
    /\ visibleCountries' = {}
    /\ fc' = << >>
    /\ todo' = {}
    /\ resp' = NoResp

\* panic: the process ends where it stands.
Panic ==
    /\ pc' = "panic"
    /\ UNCHANGED << variant, feedIdx, rows, rowIdx, locationKey, locations, sampleIps,
                    visibleCountries, fc, todo, resp, disk >>

\* What one http.Get of a feed and the ReadAll of its body may come to. An
\* answer whose status is not 200 carries one of ErrorBodies.
FetchOutcomes ==
    { [ kind |-> "geterr", status |-> 0, body |-> << >> ],
      [ kind |-> "csverr", status |-> StatusOK, body |-> << >> ] }
    \cup { [ kind |-> "rows", status |-> StatusOK, body |-> b ] : b \in BodiesOf(FeedRows) }
    \cup { [ kind |-> "rows", status |-> s, body |-> b ] :
             s \in OtherStatuses, b \in ErrorBodies }

\* readCSVUrl and its call (main.go:36-55, 70-73): only the error of http.Get
\* and the error of ReadAll fail the feed; the status code is never read.
FetchAs(o) ==
    /\ pc = "fetch"
    /\ IF o.kind # "rows"
       THEN /\ NextFeed
            /\ UNCHANGED << variant, disk >>
       ELSE /\ resp' = [ err |-> FALSE, status |-> o.status ]
            /\ rows' = o.body
            /\ rowIdx' = 1
            /\ pc' = "rows"
            /\ locations' = EmptyMap
            /\ sampleIps' = EmptyMap
            /\ visibleCountries' = {}
            /\ UNCHANGED << variant, feedIdx, locationKey, fc, todo, disk >>

\* The row is skipped: nothing but the loop index moves.
SkipRow ==
    /\ rowIdx' = rowIdx + 1
    /\ UNCHANGED << variant, feedIdx, pc, rows, locations, sampleIps,
                    visibleCountries, fc, todo, resp, disk >>

\* The row retained without its country being marked visible.
RetainNoCountry(row, prefix, key) ==
    LET ip == RepresentativeIP(prefix)
        cc == ToUpper(TrimSpace(row[2]))
    IN  /\ UNCHANGED visibleCountries
        /\ sampleIps' = MapPut(sampleIps, cc, Append(MapGetList(sampleIps, cc), ip))
        /\ locations' = IF variant = "geojson" THEN MapPut(locations, key, ip)
                        ELSE locations
        /\ rowIdx' = rowIdx + 1
        /\ UNCHANGED << variant, feedIdx, pc, rows, fc, todo, resp, disk >>

\* The locations map keyed by the country alone, one address per country.
RetainKeyedByCountry(row, prefix, key) ==
    LET ip == RepresentativeIP(prefix)
        cc == ToUpper(TrimSpace(row[2]))
    IN  /\ visibleCountries' = visibleCountries \cup { cc }
        /\ sampleIps' = MapPut(sampleIps, cc, Append(MapGetList(sampleIps, cc), ip))
        /\ locations' = IF variant = "geojson" THEN MapPut(locations, cc, ip)
                        ELSE locations
        /\ rowIdx' = rowIdx + 1
        /\ UNCHANGED << variant, feedIdx, pc, rows, fc, todo, resp, disk >>

\* The first row of a key kept: a later row of the same key does not overwrite.
RetainFirstWins(row, prefix, key) ==
    LET ip == RepresentativeIP(prefix)
        cc == ToUpper(TrimSpace(row[2]))
    IN  /\ visibleCountries' = visibleCountries \cup { cc }
        /\ sampleIps' = MapPut(sampleIps, cc, Append(MapGetList(sampleIps, cc), ip))
        /\ locations' = IF variant = "geojson" /\ key \notin DOMAIN locations
                        THEN MapPut(locations, key, ip)
                        ELSE locations
        /\ rowIdx' = rowIdx + 1
        /\ UNCHANGED << variant, feedIdx, pc, rows, fc, todo, resp, disk >>

\* main.go:86-95, part_000:76-84: the row is retained.
Retain(row, prefix, key) ==
    LET ip == RepresentativeIP(prefix)
        cc == ToUpper(TrimSpace(row[2]))
    IN  /\ visibleCountries' = visibleCountries \cup { cc }
        /\ sampleIps' = MapPut(sampleIps, cc, Append(MapGetList(sampleIps, cc), ip))
        /\ locations' = IF variant = "geojson" THEN MapPut(locations, key, ip)
                        ELSE locations
        /\ rowIdx' = rowIdx + 1
        /\ UNCHANGED << variant, feedIdx, pc, rows, fc, todo, resp, disk >>

\* The body of the row loop of the GeoJSON variant (main.go:78-97).
ProcessRowGeoJson(row) ==
    IF ParseFails(row[1])
    THEN SkipRow /\ UNCHANGED locationKey
    ELSE IF KeyPanics(row)
    THEN Panic
    ELSE LET key == feedColumnsToKey(row)
         IN  /\ locationKey' = key
             /\ IF IsValid(row[1]) /\ ~IsPrivate(row[1].addr) /\ key # << >>
                THEN Retain(row, row[1], key)
                ELSE SkipRow

\* The body of the row loop of the flat variant (part_000:70-86); row[1] of
\* Go is read only when the prefix is valid and not private.
ProcessRowFlat(row) ==
    IF ParseFails(row[1])
    THEN SkipRow /\ UNCHANGED locationKey
    ELSE IF IsValid(row[1]) /\ ~IsPrivate(row[1].addr)
    THEN IF Len(row) < 2
         THEN Panic
         ELSE IF ByteLen(TrimSpace(row[2])) = 2
              THEN Retain(row, row[1], << >>) /\ UNCHANGED locationKey
              ELSE SkipRow /\ UNCHANGED locationKey
    ELSE SkipRow /\ UNCHANGED locationKey

HandleRow ==
    /\ pc = "rows"
    /\ rowIdx <= Len(rows)
    /\ IF variant = "geojson"
       THEN ProcessRowGeoJson(rows[rowIdx])
       ELSE ProcessRowFlat(rows[rowIdx])

\* os.MkdirAll (main.go:101-106, part_000:90-95), which succeeds or not.
MkdirAs(ok) ==
    /\ pc = "rows"
    /\ rowIdx > Len(rows)
    /\ IF ok
       THEN /\ disk' = [ disk EXCEPT ![feedIdx].dir = TRUE ]
            /\ pc' = IF variant = "geojson" THEN "meta" ELSE "samples"
            /\ UNCHANGED << variant, feedIdx, rows, rowIdx, locationKey, locations,
                            sampleIps, visibleCountries, fc, todo, resp >>
       ELSE /\ NextFeed
            /\ UNCHANGED << variant, disk >>

\* What os.WriteFile comes to: the file written, or an error that leaves the
\* file as it was (it could not be opened) or truncated (no partial-write
\* protection).
WriteResults == { "written", "kept", "truncated" }

AfterWrite(result, old, new, truncated) ==
    CASE result = "written"   -> Written(new)
      [] result = "kept"      -> old
      [] result = "truncated" -> truncated

\* rfc8805.meta.json, but for lastModified (main.go:109-123, part_000:109-123).
MetaFile(order) ==
    [ provider |-> feeds[feedIdx].providerName,
      feedUrl |-> feeds[feedIdx].url,
      visibleCountries |-> order ]

\* Both files written at once, samples.json still empty, before any lookup.
WriteMetaAndSamplesGeoJsonAs(order, result) ==
    /\ pc = "meta"
    /\ variant = "geojson"
    /\ disk' = [ disk EXCEPT
                   ![feedIdx].meta =
                       AfterWrite(result, disk[feedIdx].meta, MetaFile(order), TruncatedMeta),
                   ![feedIdx].samples = Written(<< >>) ]
    /\ IF result = "written"
       THEN /\ pc' = "annotate"
            /\ fc' = << >>
            /\ todo' = DOMAIN locations
            /\ UNCHANGED << variant, feedIdx, rows, rowIdx, locationKey, locations,
                            sampleIps, visibleCountries, resp >>
       ELSE /\ NextFeed
            /\ UNCHANGED variant

\* main.go:108-134: the metadata is written, its countries in the order the
\* range over the map gave, before ipToGeoJson is called.
WriteMetaGeoJsonAs(order, result) ==
    /\ pc = "meta"
    /\ variant = "geojson"
    /\ disk' = [ disk EXCEPT ![feedIdx].meta =
                   AfterWrite(result, disk[feedIdx].meta, MetaFile(order), TruncatedMeta) ]
    /\ IF result = "written"
       THEN /\ pc' = "annotate"
            /\ fc' = << >>
            /\ todo' = DOMAIN locations
            /\ UNCHANGED << variant, feedIdx, rows, rowIdx, locationKey, locations,
                            sampleIps, visibleCountries, resp >>
       ELSE /\ NextFeed
            /\ UNCHANGED variant

\* colorForBrand (main.go:283-294)
colorForBrand(brand) ==
    CASE brand = "starlink" -> "#5A5A5A"
      [] brand = "viasat"   -> "#009FE3"
      [] OTHER              -> "#009FE3"

\* The country codes the geolocation API answers with.
ApiCountries == { US, CA }

\* What one lookup may come to: an error of c.Do, a status other than 200, a
\* body that does not decode, or an answer.
ApiOutcomes ==
    { [ kind |-> k, countryCode |-> << >> ] : k \in { "doerr", "status", "badjson" } }
    \cup { [ kind |-> "answer", countryCode |-> cc ] : cc \in ApiCountries }

\* The feature built from one answer (main.go:253-276).
Feature(ip, countryCode) ==
    [ ip |-> ip,
      cciso2 |-> countryCode,
      title |-> feeds[feedIdx].providerName,
      markerColor |-> colorForBrand(feeds[feedIdx].key) ]

\* The loop left, instead of continued, at a body that does not decode.
LookupBreakingAs(uniqueloc, o) ==
    /\ pc = "annotate"
    /\ uniqueloc \in todo
    /\ IF o.kind \in { "doerr", "status" }
       THEN Panic
       ELSE /\ todo' = IF o.kind = "badjson" THEN { } ELSE todo \ { uniqueloc }
            /\ fc' = IF o.kind = "badjson" THEN fc
                     ELSE Append(fc, Feature(locations[uniqueloc], o.countryCode))
            /\ UNCHANGED << variant, feedIdx, pc, rows, rowIdx, locationKey, locations,
                            sampleIps, visibleCountries, resp, disk >>

\* A status other than 200 taken for a body that does not decode: the loop
\* continued where it has to panic.
LookupSkippingStatusAs(uniqueloc, o) ==
    /\ pc = "annotate"
    /\ uniqueloc \in todo
    /\ IF o.kind = "doerr"
       THEN Panic
       ELSE /\ todo' = todo \ { uniqueloc }
            /\ fc' = IF o.kind \in { "badjson", "status" } THEN fc
                     ELSE Append(fc, Feature(locations[uniqueloc], o.countryCode))
            /\ UNCHANGED << variant, feedIdx, pc, rows, rowIdx, locationKey, locations,
                            sampleIps, visibleCountries, resp, disk >>

\* A body that does not decode taken for a failed call: a panic where the
\* loop has to continue.
LookupAbortingOnBadJsonAs(uniqueloc, o) ==
    /\ pc = "annotate"
    /\ uniqueloc \in todo
    /\ IF o.kind \in { "doerr", "status", "badjson" }
       THEN Panic
       ELSE /\ todo' = todo \ { uniqueloc }
            /\ fc' = Append(fc, Feature(locations[uniqueloc], o.countryCode))
            /\ UNCHANGED << variant, feedIdx, pc, rows, rowIdx, locationKey, locations,
                            sampleIps, visibleCountries, resp, disk >>

\* One turn of the range loop of ipToGeoJson (main.go:227-277), on a key the
\* loop has not visited: a panic (main.go:241-244), a skip (main.go:248-251)
\* or a feature appended.
LookupAs(uniqueloc, o) ==
    /\ pc = "annotate"
    /\ uniqueloc \in todo
    /\ IF o.kind \in { "doerr", "status" }
       THEN Panic
       ELSE /\ todo' = todo \ { uniqueloc }
            /\ fc' = IF o.kind = "badjson" THEN fc
                     ELSE Append(fc, Feature(locations[uniqueloc], o.countryCode))
            /\ UNCHANGED << variant, feedIdx, pc, rows, rowIdx, locationKey, locations,
                            sampleIps, visibleCountries, resp, disk >>

\* main.go:137-144: ipToGeoJson has returned; samples.json is written.
WriteSamplesGeoJsonAs(result) ==
    /\ pc = "annotate"
    /\ todo = {}
    /\ disk' = [ disk EXCEPT ![feedIdx].samples =
                   AfterWrite(result, disk[feedIdx].samples, fc, TruncatedSamples) ]
    /\ NextFeed
    /\ UNCHANGED variant

\* part_000:96-107: samples.json of the flat variant, the map country ->
\* addresses (json.Marshal writes a map with its keys sorted).
WriteSamplesFlatAs(result) ==
    /\ pc = "samples"
    /\ variant = "flat"
    /\ disk' = [ disk EXCEPT ![feedIdx].samples =
                   AfterWrite(result, disk[feedIdx].samples, sampleIps, TruncatedSamples) ]
    /\ IF result = "written"
       THEN /\ pc' = "meta"
            /\ UNCHANGED << variant, feedIdx, rows, rowIdx, locationKey, locations,
                            sampleIps, visibleCountries, fc, todo, resp >>
       ELSE /\ NextFeed
            /\ UNCHANGED variant

\* part_000:108-133
WriteMetaFlatAs(order, result) ==
    /\ pc = "meta"
    /\ variant = "flat"
    /\ disk' = [ disk EXCEPT ![feedIdx].meta =
                   AfterWrite(result, disk[feedIdx].meta, MetaFile(order), TruncatedMeta) ]
    /\ NextFeed
    /\ UNCHANGED variant

----------------------------------------------------------------------------
(* One run of the tool.                                                    *)

NoLog == [ fetch |-> << >>, mkdir |-> << >>, meta |-> << >>, samples |-> << >>,
           api |-> << >> ]

Init ==
    /\ variant \in { "geojson", "flat" }
    /\ feedIdx = 1
    /\ pc = "fetch"
    /\ rows = << >>
    /\ rowIdx = 1
    /\ locationKey = << >>
    /\ locations = EmptyMap
    /\ sampleIps = EmptyMap
    /\ visibleCountries = {}
    /\ fc = << >>
    /\ todo = {}
    /\ resp = NoResp
    /\ disk = EmptyDisk
    /\ run = 1
    /\ prev = EmptyDisk
    /\ page = NoPage
    /\ log = NoLog

Fetch ==
    /\ \E o \in FetchOutcomes : FetchAs(o)
    /\ UNCHANGED << run, prev, log, page >>

ProcessRow ==
    /\ HandleRow
    /\ UNCHANGED << run, prev, log, page >>

Mkdir ==
    /\ \E ok \in BOOLEAN : MkdirAs(ok)
    /\ UNCHANGED << run, prev, log, page >>

WriteMetaGeoJson ==
    /\ \E order \in Orders(visibleCountries), result \in WriteResults :
          WriteMetaGeoJsonAs(order, result)
    /\ UNCHANGED << run, prev, log, page >>

Lookup ==
    /\ \E uniqueloc \in todo, o \in ApiOutcomes : LookupAs(uniqueloc, o)
    /\ UNCHANGED << run, prev, log, page >>

WriteSamplesGeoJson ==
    /\ \E result \in WriteResults : WriteSamplesGeoJsonAs(result)
    /\ UNCHANGED << run, prev, log, page >>

WriteSamplesFlat ==
    /\ \E result \in WriteResults : WriteSamplesFlatAs(result)
    /\ UNCHANGED << run, prev, log, page >>

WriteMetaFlat ==
    /\ \E order \in Orders(visibleCountries), result \in WriteResults :
          WriteMetaFlatAs(order, result)
    /\ UNCHANGED << run, prev, log, page >>

Next ==
    \/ Fetch
    \/ ProcessRow
    \/ Mkdir
    \/ WriteMetaGeoJson
    \/ Lookup
    \/ WriteSamplesGeoJson
    \/ WriteSamplesFlat
    \/ WriteMetaFlat

Spec == Init /\ [][Next]_vars

----------------------------------------------------------------------------
(* Claims about the pipeline.                                              *)

Range(seq) == { seq[i] : i \in 1..Len(seq) }

\* The addresses the maps of the current feed hold.
HeldAddrs ==
    { locations[k] : k \in DOMAIN locations }
    \cup UNION { Range(sampleIps[cc]) : cc \in DOMAIN sampleIps }

\* The addresses in samples.json of feed f.
WrittenAddrs(f) ==
    LET d == disk[f].samples.data
    IN  IF disk[f].samples.st # "written" THEN { }
        ELSE IF variant = "flat" THEN UNION { Range(d[cc]) : cc \in DOMAIN d }
        ELSE { d[i].ip : i \in 1..Len(d) }

\* C2: no address held in the locations map, in the per-country sample lists
\* or written to samples.json is a private-range address.
C2_NoPrivateSample ==
    \A a \in HeldAddrs \cup UNION { WrittenAddrs(f) : f \in 1..NumFeeds } :
        ~IsPrivate(a)

\* The process panicked inside ipToGeoJson: the row loop was over.
AbortedInAnnotator == variant = "geojson" /\ pc = "panic" /\ rowIdx > Len(rows)

C4_FailedFetchAsStated ==
    (resp.err \/ resp.status \notin { 0, StatusOK }) =>
        /\ rows = << >>
        /\ disk[feedIdx] = EmptyDisk[feedIdx]

\* The country codes of what samples.json of feed f holds.
EmittedCountries(f) ==
    LET d == disk[f].samples.data
    IN  IF variant = "flat" THEN DOMAIN d ELSE { d[i].cciso2 : i \in 1..Len(d) }

NoDuplicates(seq) == \A i, j \in 1..Len(seq) : i # j => seq[i] # seq[j]

\* C7 as stated: visibleCountries of rfc8805.meta.json is, without duplicates,
\* exactly the set of country codes of the samples emitted to samples.json.
C7_VisibleAreEmittedAsStated ==
    \A f \in 1..NumFeeds :
        (disk[f].meta.st = "written" /\ disk[f].samples.st = "written") =>
            /\ NoDuplicates(disk[f].meta.data.visibleCountries)
            /\ Range(disk[f].meta.data.visibleCountries) = EmittedCountries(f)

\* C7 amended: visibleCountries of rfc8805.meta.json is, without duplicates,
\* exactly the set of country codes of the samples retained from the feed's
\* rows: the countries of the per-country sample lists (which the flat variant
\* writes to samples.json) and of the keys of the locations map. The features
\* of the GeoJSON variant carry the country the API answered, and none for an
\* address whose answer did not decode.
C7_VisibleAreRetained ==
    \A f \in 1..NumFeeds :
        disk[f].meta.st = "written" =>
            /\ NoDuplicates(disk[f].meta.data.visibleCountries)
            /\ (variant = "flat" /\ disk[f].samples.st = "written") =>
                    Range(disk[f].meta.data.visibleCountries) = DOMAIN disk[f].samples.data
            /\ (f = feedIdx /\ pc \in { "annotate", "panic" }) =>
                    /\ Range(disk[f].meta.data.visibleCountries) = DOMAIN sampleIps
                    /\ Range(disk[f].meta.data.visibleCountries)
                         = { Split(k, ",")[1] : k \in DOMAIN locations }

\* The metadata of a feed with samples of two countries is on disk.
C7_Witness ==
    /\ variant = "geojson"
    /\ pc = "annotate"
    /\ disk[feedIdx].meta.st = "written"
    /\ Len(disk[feedIdx].meta.data.visibleCountries) = 2
    /\ Cardinality(DOMAIN sampleIps) = 2

\* C10: no row makes the run abort: the process never panics while rows of
\* the feed are still to be handled.
C10_RowErrorsNonFatalAsStated ==
    pc = "panic" => rowIdx > Len(rows)

----------------------------------------------------------------------------
(* One run of the tool, with what the API answered to each lookup kept in  *)
(* log.api: per feed and location key, the outcome and the address asked.  *)

MaxLoggedRows == 2

\* The rows of the feeds of this run: two location keys of one country and
\* one of another.
LoggedRows ==
    { << Prefix4(98, 97, 0, 0, 16), US, << >>, << >> >>,
      << Prefix4(98, 97, 64, 0, 18), US, << "U","S","-","M","A" >>, << "B" >> >>,
      << Prefix4(11, 0, 0, 0, 7), CA, << "C","A","-","O","N" >>, << "T" >> >> }

LoggedOutcomes ==
    { [ kind |-> "geterr", status |-> 0, body |-> << >> ] }
    \cup { [ kind |-> "rows", status |-> StatusOK, body |-> b ] :
             b \in UNION { [ 1..n -> LoggedRows ] : n \in 0..MaxLoggedRows } }

FetchLogged ==
    /\ \E o \in LoggedOutcomes : FetchAs(o)
    /\ UNCHANGED << run, prev, log, page >>

Logged(o, ip) == [ kind |-> o.kind, countryCode |-> o.countryCode, ip |-> ip ]

LookupLogged ==
    /\ \E uniqueloc \in todo, o \in ApiOutcomes :
          /\ LookupAs(uniqueloc, o)
          /\ log' = [ log EXCEPT !.api =
                        MapPut(@, << feedIdx, uniqueloc >>, Logged(o, locations[uniqueloc])) ]
    /\ UNCHANGED << run, prev, page >>

NextLogged ==
    \/ FetchLogged
    \/ ProcessRow
    \/ Mkdir
    \/ WriteMetaGeoJson
    \/ LookupLogged
    \/ WriteSamplesGeoJson
    \/ WriteSamplesFlat
    \/ WriteMetaFlat

SpecLogged == Init /\ [][NextLogged]_vars

\* The lookups answered in this step.
NewLookups == DOMAIN log'.api \ DOMAIN log.api

\* C11: a lookup that ends in a network error or a status other than 200
\* aborts the process at that lookup: nothing is written and no feature built
\* in that step, samples.json of the current provider is not written, the later
\* feeds have nothing on disk, and no step follows the abort.
C11_LookupFailureAborts ==
    [][ /\ \A k \in NewLookups :
             log'.api[k].kind \in { "doerr", "status" } =>
                 /\ pc' = "panic"
                 /\ UNCHANGED << disk, fc, todo, feedIdx >>
                 /\ disk[feedIdx].samples.st = "absent"
                 /\ \A f \in (feedIdx + 1)..NumFeeds : disk[f] = EmptyDisk[f]
        /\ pc = "panic" => UNCHANGED vars ]_vars

\* The second lookup of the first feed got a status other than 200: one
\* feature built, one key never looked up, and no samples.json written.
C11_Witness ==
    /\ AbortedInAnnotator
    /\ feedIdx = 1
    /\ Len(fc) = 1
    /\ Cardinality(todo) = 1
    /\ \E k \in DOMAIN log.api : k[1] = 1 /\ log.api[k].kind = "status"
    /\ disk[1].samples.st = "absent"
    /\ disk[2] = EmptyDisk[2]

\* The keys of the current feed whose lookup was answered and decoded.
AnsweredKeys ==
    { k \in DOMAIN locations :
        << feedIdx, k >> \in DOMAIN log.api /\ log.api[<< feedIdx, k >>].kind = "answer" }

\* ipToGeoJson has returned and main goes on to write samples.json.
SamplesStep == variant = "geojson" /\ pc = "annotate" /\ feedIdx' = feedIdx + 1

\* C12: a 200 answer whose body does not decode builds no feature and stops
\* nothing: the loop goes on with the keys left, and when it is over every key
\* of the feed was looked up, the collection holds exactly the features of the
\* answers that decoded, and that collection is what main writes to samples.json.
C12_BadJsonSkipsOneAddress ==
    [][ /\ \A k \in NewLookups :
             log'.api[k].kind = "badjson" =>
                 /\ pc' = "annotate"
                 /\ todo' = todo \ { k[2] }
                 /\ UNCHANGED << fc, disk, feedIdx, locations >>
        /\ SamplesStep =>
             /\ \A k \in DOMAIN locations : << feedIdx, k >> \in DOMAIN log.api
             /\ Len(fc) = Cardinality(AnsweredKeys)
             /\ \A k \in AnsweredKeys :
                   \E i \in 1..Len(fc) :
                      /\ fc[i].ip = locations[k]
                      /\ fc[i].cciso2 = log.api[<< feedIdx, k >>].countryCode
             /\ disk'[feedIdx].samples
                   \in { Written(fc), disk[feedIdx].samples, TruncatedSamples } ]_vars

\* samples.json of the first feed was written with the one feature of a feed
\* of two keys, the answer for the other key not having decoded.
C12_Witness ==
    /\ variant = "geojson"
    /\ disk[1].samples.st = "written"
    /\ Len(disk[1].samples.data) = 1
    /\ \E j, k \in DOMAIN log.api :
          /\ j[1] = 1 /\ log.api[j].kind = "badjson"
          /\ k[1] = 1 /\ log.api[k].kind = "answer"
          /\ disk[1].samples.data[1].ip = log.api[k].ip

\* The row passes the filter of main.go:85.
PassesFilter(row) ==
    /\ ~ParseFails(row[1])
    /\ Len(row) >= 4
    /\ IsValid(row[1])
    /\ ~IsPrivate(row[1].addr)
    /\ feedColumnsToKey(row) # << >>

\* The location keys of the rows of the current feed that pass the filter.
RetainedKeys ==
    { feedColumnsToKey(rows[i]) : i \in { j \in 1..Len(rows) : PassesFilter(rows[j]) } }

\* C13 as stated: in samples.json of the GeoJSON variant no two features
\* carry the same country code.
C13_OneFeaturePerCountryAsStated ==
    \A f \in 1..NumFeeds :
        (variant = "geojson" /\ disk[f].samples.st = "written") =>
            \A i, j \in 1..Len(disk[f].samples.data) :
                i # j => disk[f].samples.data[i].cciso2 # disk[f].samples.data[j].cciso2

\* C13 amended: the FeatureCollection holds one feature per location key
\* (country, state, city) of the feed whose lookup was answered and decoded,
\* so a country with several (state, city) keys has several features: while
\* ipToGeoJson runs, the keys looked up are exactly the keys of the retained
\* rows, and the features are, one for one, the keys answered so far.
C13_OneFeaturePerLocationKey ==
    (variant = "geojson" /\ pc = "annotate") =>
        /\ DOMAIN locations = RetainedKeys
        /\ Len(fc) = Cardinality(AnsweredKeys)
        /\ \A k \in AnsweredKeys : \E i \in 1..Len(fc) : fc[i].ip = locations[k]

\* samples.json of the first feed holds two features of one country, one
\* for each of its two location keys.
C13_Witness ==
    /\ variant = "geojson"
    /\ disk[1].samples.st = "written"
    /\ Len(disk[1].samples.data) = 2
    /\ disk[1].samples.data[1].cciso2 = US
    /\ disk[1].samples.data[2].cciso2 = US
    /\ { disk[1].samples.data[i].ip : i \in 1..2 }
         = { << 98, 97, 0, 1 >>, << 98, 97, 64, 1 >> }

----------------------------------------------------------------------------
(* The tool run twice, each run on an empty output tree. The world answers *)
(* the second run as it answered the first: the same feed, the same file   *)
(* system outcome, the same answer of the API for the same address. What   *)
(* is free in each run is the order in which a range visits a map.         *)

MaxTwiceRows == 2

\* The rows of the feeds of the two runs: two countries, two location keys.
TwiceRows ==
    { << Prefix4(98, 97, 0, 0, 16), US, << >>, << >> >>,
      << Prefix4(98, 97, 8, 9, 24), CA, << "C","A","-","O","N" >>, << "T" >> >> }

TwiceOutcomes ==
    { [ kind |-> "geterr", status |-> 0, body |-> << >> ],
      [ kind |-> "csverr", status |-> StatusOK, body |-> << >> ] }
    \cup { [ kind |-> "rows", status |-> StatusOK, body |-> b ] :
             b \in UNION { [ 1..n -> TwiceRows ] : n \in 0..MaxTwiceRows } }
    \cup { [ kind |-> "rows", status |-> s, body |-> << << Unparseable >> >> ] :
             s \in OtherStatuses }

\* What a lookup may come to in the two runs: a panic, a skip, an answer.
TwiceApiOutcomes ==
    { [ kind |-> k, countryCode |-> << >> ] : k \in { "status", "badjson" } }
    \cup { [ kind |-> "answer", countryCode |-> US ] }

\* The answers the world may give where m has none recorded for k.
Known(m, k, all) == IF k \in DOMAIN m THEN { m[k] } ELSE all

FetchTwice ==
    /\ \E o \in Known(log.fetch, feedIdx, TwiceOutcomes) :
          /\ FetchAs(o)
          /\ log' = [ log EXCEPT !.fetch = MapPut(@, feedIdx, o) ]
    /\ UNCHANGED << run, prev, page >>

ProcessRowTwice ==
    /\ HandleRow
    /\ UNCHANGED << run, prev, log, page >>

MkdirTwice ==
    /\ \E ok \in Known(log.mkdir, feedIdx, BOOLEAN) :
          /\ MkdirAs(ok)
          /\ log' = [ log EXCEPT !.mkdir = MapPut(@, feedIdx, ok) ]
    /\ UNCHANGED << run, prev, page >>

WriteMetaGeoJsonTwice ==
    /\ \E order \in Orders(visibleCountries),
          result \in Known(log.meta, feedIdx, WriteResults) :
          /\ WriteMetaGeoJsonAs(order, result)
          /\ log' = [ log EXCEPT !.meta = MapPut(@, feedIdx, result) ]
    /\ UNCHANGED << run, prev, page >>

LookupTwice ==
    /\ \E uniqueloc \in todo :
       \E o \in Known(log.api, locations[uniqueloc], TwiceApiOutcomes) :
          /\ LookupAs(uniqueloc, o)
          /\ log' = [ log EXCEPT !.api = MapPut(@, locations[uniqueloc], o) ]
    /\ UNCHANGED << run, prev, page >>

WriteSamplesGeoJsonTwice ==
    /\ \E result \in Known(log.samples, feedIdx, WriteResults) :
          /\ WriteSamplesGeoJsonAs(result)
          /\ log' = [ log EXCEPT !.samples = MapPut(@, feedIdx, result) ]
    /\ UNCHANGED << run, prev, page >>

WriteSamplesFlatTwice ==
    /\ \E result \in Known(log.samples, feedIdx, WriteResults) :
          /\ WriteSamplesFlatAs(result)
          /\ log' = [ log EXCEPT !.samples = MapPut(@, feedIdx, result) ]
    /\ UNCHANGED << run, prev, page >>

WriteMetaFlatTwice ==
    /\ \E order \in Orders(visibleCountries),
          result \in Known(log.meta, feedIdx, WriteResults) :
          /\ WriteMetaFlatAs(order, result)
          /\ log' = [ log EXCEPT !.meta = MapPut(@, feedIdx, result) ]
    /\ UNCHANGED << run, prev, page >>

\* The first run is over (main returned, or the process panicked): the tool
\* is started again on an empty output tree.
SecondRun ==
    /\ run = 1
    /\ pc \in { "done", "panic" }
    /\ run' = 2
    /\ prev' = disk
    /\ disk' = EmptyDisk
    /\ feedIdx' = 1
    /\ pc' = "fetch"
    /\ rows' = << >>
    /\ rowIdx' = 1
    /\ locationKey' = << >>
    /\ locations' = EmptyMap
    /\ sampleIps' = EmptyMap
    /\ visibleCountries' = {}
    /\ fc' = << >>
    /\ todo' = {}
    /\ resp' = NoResp
    /\ UNCHANGED << variant, log, page >>

NextTwice ==
    \/ FetchTwice
    \/ ProcessRowTwice
    \/ MkdirTwice
    \/ WriteMetaGeoJsonTwice
    \/ LookupTwice
    \/ WriteSamplesGeoJsonTwice
    \/ WriteSamplesFlatTwice
    \/ WriteMetaFlatTwice
    \/ SecondRun

SpecTwice == Init /\ [][NextTwice]_vars

\* Both runs are over.
BothRunsOver == run = 2 /\ pc \in { "done", "panic" }

\* The samples of a samples.json, as a set (of the GeoJSON variant: its features).
SampleSet(file) ==
    IF file.st # "written" THEN { }
    ELSE IF variant = "flat" THEN { << cc, file.data[cc] >> : cc \in DOMAIN file.data }
    ELSE Range(file.data)

\* C9 as stated: two runs over the same feed rows and the same geolocation
\* answers leave the same rfc8805.meta.json but for lastModified, the order of
\* visibleCountries included, and the same sample sets in samples.json.
C9_SameOutputAsStated ==
    BothRunsOver =>
        \A f \in 1..NumFeeds :
            /\ disk[f].meta = prev[f].meta
            /\ disk[f].samples.st = prev[f].samples.st
            /\ SampleSet(disk[f].samples) = SampleSet(prev[f].samples)

\* C9 amended: two runs over the same feed rows and the same geolocation
\* answers leave the same rfc8805.meta.json but for lastModified and for the
\* order of the visibleCountries array (the same provider, feed URL and set of
\* country codes), and the same sample sets in samples.json.
C9_SameOutputUpToOrder ==
    BothRunsOver =>
        \A f \in 1..NumFeeds :
            /\ disk[f].dir = prev[f].dir
            /\ disk[f].meta.st = prev[f].meta.st
            /\ disk[f].meta.data.provider = prev[f].meta.data.provider
            /\ disk[f].meta.data.feedUrl = prev[f].meta.data.feedUrl
            /\ Range(disk[f].meta.data.visibleCountries)
                 = Range(prev[f].meta.data.visibleCountries)
            /\ disk[f].samples.st = prev[f].samples.st
            /\ SampleSet(disk[f].samples) = SampleSet(prev[f].samples)

\* Two full runs of the GeoJSON variant over a feed of two countries, whose
\* metadata lists the countries in different orders.
C9_Witness ==
    /\ BothRunsOver
    /\ variant = "geojson"
    /\ pc = "done"
    /\ disk[1].meta.st = "written"
    /\ disk[1].samples.st = "written"
    /\ Len(disk[1].samples.data) = 2
    /\ Len(disk[1].meta.data.visibleCountries) = 2
    /\ disk[1].meta.data.visibleCountries # prev[1].meta.data.visibleCountries

----------------------------------------------------------------------------
(* The row loop alone (main.go:77-98, part_000:69-87), on the rows of one  *)
(* feed that was fetched, over a wider choice of prefixes and columns.     *)

MaxLoopRows == 2

Prefix16(a, b, c, d, last, bits) ==
    [ ok |-> TRUE,
      addr |-> << a, b, c, d, 0, 0, 0, 0, 0, 0, 0, 0, 0, 0, 0, last >>,
      bits |-> bits ]

LoopPrefixes ==
    { Prefix4(98, 97, 0, 0, 16), Prefix4(98, 97, 5, 1, 32), Prefix4(98, 97, 5, 7, 31),
      Prefix4(98, 97, 8, 9, 24), Prefix4(1, 2, 3, 255, 30), Prefix4(0, 0, 0, 0, 0),
      Prefix4(255, 255, 255, 255, 32), Prefix4(255, 255, 255, 255, 31),
      Prefix4(10, 0, 0, 0, 8), Prefix4(10, 1, 2, 3, 32), Prefix4(11, 0, 0, 0, 7),
      Prefix4(172, 16, 0, 0, 12), Prefix4(192, 169, 0, 0, 15), Prefix4(1, 2, 3, 4, 33),
      Prefix16(42, 13, 51, 64, 0, 32), Prefix16(42, 13, 51, 64, 9, 128),
      Prefix16(42, 13, 51, 64, 9, 127), Prefix16(252, 0, 0, 0, 0, 7),
      Prefix16(254, 0, 0, 0, 0, 6), Prefix16(255, 255, 255, 255, 255, 127),
      Unparseable }

LoopCountries ==
    { US, << " ","u","s"," " >>, CA, << "U" >>, << "U","S","A" >>, << "1","2" >>,
      << "e-acute" >> }

LoopStates ==
    { << >>, << "U","S","-","M","A" >>, << "U","S","-","C","A","L","I" >>,
      << "A","B","C","D","E","F" >> }

LoopRows ==
    { << p, US, << >>, << >> >> : p \in LoopPrefixes }
    \cup { << Prefix4(98, 97, 0, 0, 16), cc, st, << "C" >> >> :
             cc \in LoopCountries, st \in LoopStates }
    \cup { << Prefix4(98, 97, 0, 0, 16), US >>, << Prefix4(10, 0, 0, 0, 8), US >>,
           << Prefix4(98, 97, 0, 0, 16) >>, << Unparseable >> }

LoopBodies ==
    { b \in UNION { [ 1..n -> LoopRows ] : n \in 1..MaxLoopRows } :
        \A i, j \in 1..Len(b) : Len(b[i]) = Len(b[j]) }

InitRowLoop ==
    /\ variant \in { "geojson", "flat" }
    /\ feedIdx = 1
    /\ pc = "rows"
    /\ rows \in LoopBodies
    /\ rowIdx = 1
    /\ locationKey = << >>
    /\ locations = EmptyMap
    /\ sampleIps = EmptyMap
    /\ visibleCountries = {}
    /\ fc = << >>
    /\ todo = {}
    /\ resp = [ err |-> FALSE, status |-> StatusOK ]
    /\ disk = EmptyDisk
    /\ run = 1
    /\ prev = EmptyDisk
    /\ page = NoPage
    /\ log = NoLog

NextRowLoop == ProcessRow

SpecRowLoop == InitRowLoop /\ [][NextRowLoop]_vars

----------------------------------------------------------------------------
(* Claims about the row loop.                                              *)

\* Bit i (1 is the most significant) of an address.
Bit(addr, i) == (addr[((i - 1) \div 8) + 1] \div Pow2(7 - ((i - 1) % 8))) % 2

\* ip is the network address of the prefix plus one (the network bits of the
\* address as written, then zeros, then a final one), or the address itself
\* when the prefix holds a single address.
SecondOrSole(prefix, ip) ==
    IF prefix.bits = BitLen(prefix.addr)
    THEN ip = prefix.addr
    ELSE /\ Len(ip) = Len(prefix.addr)
         /\ \A i \in 1..BitLen(prefix.addr) :
              Bit(ip, i) = IF i <= prefix.bits THEN Bit(prefix.addr, i)
                           ELSE IF i = BitLen(prefix.addr) THEN 1 ELSE 0

\* The country whose list of samples is one longer after the step.
GrownCountry ==
    CHOOSE cc \in DOMAIN sampleIps' :
        Len(sampleIps'[cc]) = Len(MapGetList(sampleIps, cc)) + 1

\* C1: whenever a row is retained, the address appended to the samples of its
\* country (and stored under its location key) is the second address of the
\* row's prefix, or the prefix's own address when it is a single-address prefix.
C1_RepresentativeIsSecondOrSole ==
    [][ (pc = "rows" /\ sampleIps' # sampleIps) =>
          /\ SecondOrSole(rows[rowIdx][1],
                          sampleIps'[GrownCountry][Len(sampleIps'[GrownCountry])])
          /\ variant = "geojson" =>
                SecondOrSole(rows[rowIdx][1], locations'[locationKey']) ]_vars

\* A /31 written with its host bit set was retained as its second address.
C1_Witness ==
    /\ pc = "rows"
    /\ rowIdx = 2
    /\ rows[1][1] = Prefix4(98, 97, 5, 7, 31)
    /\ US \in DOMAIN sampleIps
    /\ sampleIps[US] = << << 98, 97, 5, 7 >> >>

\* Column i of a row, empty when the row is too short to have it.
Col(row, i) == IF Len(row) >= i THEN row[i] ELSE << >>

StateReducesTooLong(row) ==
    Len(WithoutCountryPrefix(ToUpper(TrimSpace(Col(row, 3))))) > 5

RetainedSoFar == { i \in 1..(rowIdx - 1) : PassesFilter(rows[i]) }

LastRetained(k) ==
    CHOOSE i \in RetainedSoFar :
        /\ feedColumnsToKey(rows[i]) = k
        /\ \A j \in RetainedSoFar : feedColumnsToKey(rows[j]) = k => j <= i

\* C15: after any number of rows, the locations map holds exactly one address
\* for each grouping key that had a retained row, and it is the representative
\* address of the last retained row with that key.
C15_LastWriteWins ==
    variant = "geojson" =>
        /\ DOMAIN locations = { feedColumnsToKey(rows[i]) : i \in RetainedSoFar }
        /\ \A k \in DOMAIN locations :
              locations[k] = RepresentativeIP(rows[LastRetained(k)][1])

\* Two rows of one key and different prefixes were retained, and the map
\* holds the address of the second.
C15_Witness ==
    /\ variant = "geojson"
    /\ rowIdx = 3
    /\ rows[1][1] = Prefix4(98, 97, 0, 0, 16)
    /\ rows[2][1] = Prefix4(98, 97, 8, 9, 24)
    /\ DOMAIN locations = { feedColumnsToKey(rows[1]) }
    /\ feedColumnsToKey(rows[2]) = feedColumnsToKey(rows[1])
    /\ \A k \in DOMAIN locations : locations[k] = << 98, 97, 8, 1 >>

\* ip is an address of the prefix: of its family, with its network bits.
InsidePrefix(prefix, ip) ==
    /\ ip # ZeroAddr
    /\ Len(ip) = Len(prefix.addr)
    /\ \A i \in 1..prefix.bits : Bit(ip, i) = Bit(prefix.addr, i)

\* C17: the address retained for a row lies inside the row's prefix, and is
\* never the zero address that stepping past the last address gives.
C17_SampleInsidePrefix ==
    [][ (pc = "rows" /\ sampleIps' # sampleIps) =>
          /\ InsidePrefix(rows[rowIdx][1],
                          sampleIps'[GrownCountry][Len(sampleIps'[GrownCountry])])
          /\ variant = "geojson" =>
                InsidePrefix(rows[rowIdx][1], locations'[locationKey']) ]_vars

\* The last two addresses of IPv4, as a /31, were retained as the last one.
C17_Witness ==
    /\ pc = "rows"
    /\ rowIdx = 2
    /\ rows[1][1] = Prefix4(255, 255, 255, 255, 31)
    /\ US \in DOMAIN sampleIps
    /\ sampleIps[US] = << << 255, 255, 255, 255 >> >>

----------------------------------------------------------------------------
(* feedColumnsToKey alone: one call on one row.                            *)

KeyCountries ==
    { << "U","S" >>, << "u","s" >>, << " ","u","s"," " >>, << "U" >>,
      << "U","S","A" >>, << "1","2" >>, << "e-acute" >>, << "U","," >>, << >> }

KeyStates ==
    { << >>, << "M","A" >>, << "U","S","-","M","A" >>, << "u","s","-","m","a" >>,
      << "U","S","-","C","A","L","I" >>, << "A","B","C","D","E","F" >>,
      << "A" >>, << "A",",","B" >>, << "M","A","-" >>, << "A","-","B","-","C" >> }

KeyCities ==
    { << >>, << "C" >>, << " ","C"," " >>, << "B",",","C" >>, << "b","o","s" >> }

KeyRows ==
    { << Prefix4(98, 97, 0, 0, 16), cc, st, city >> :
        cc \in KeyCountries, st \in KeyStates, city \in KeyCities }
    \cup { << Prefix4(98, 97, 0, 0, 16), << "U","S" >> >>,
           << Prefix4(98, 97, 0, 0, 16), << "U","S" >>, << "M","A" >> >> }

InitKey ==
    /\ variant = "geojson"
    /\ feedIdx = 1
    /\ pc = "key"
    /\ rows \in { << r >> : r \in KeyRows }
    /\ rowIdx = 1
    /\ locationKey = << >>
    /\ locations = EmptyMap
    /\ sampleIps = EmptyMap
    /\ visibleCountries = {}
    /\ fc = << >>
    /\ todo = {}
    /\ resp = NoResp
    /\ disk = EmptyDisk
    /\ run = 1
    /\ prev = EmptyDisk
    /\ page = NoPage
    /\ log = NoLog

\* locationKey := feedColumnsToKey(row) (main.go:81)
ComputeKey ==
    /\ pc = "key"
    /\ IF KeyPanics(rows[rowIdx])
       THEN /\ pc' = "panic"
            /\ UNCHANGED locationKey
       ELSE /\ pc' = "keyed"
            /\ locationKey' = feedColumnsToKey(rows[rowIdx])
    /\ UNCHANGED << variant, feedIdx, rows, rowIdx, locations, sampleIps,
                    visibleCountries, fc, todo, resp, run, prev, log, disk, page >>

NextKey == ComputeKey

SpecKey == InitKey /\ [][NextKey]_vars

----------------------------------------------------------------------------
(* Claims about feedColumnsToKey.                                          *)

\* The columns of the row the call was made on.
KeyCC   == rows[1][2]
KeyST   == rows[1][3]
KeyCity == rows[1][4]

\* C6 as stated: the key is non-empty exactly when the trimmed country code is
\* two letters and the state, its country prefix removed, has at most 5 characters.
C6_KeyValidAsStated ==
    pc = "keyed" =>
        ( locationKey # << >>
          <=> /\ TwoLetters(TrimSpace(KeyCC))
              /\ Len(WithoutCountryPrefix(ToUpper(TrimSpace(KeyST)))) <= 5 )

\* C6 amended: the key is non-empty exactly when the uppercased trimmed country
\* code is 2 bytes long and the uppercased trimmed state column, as written
\* (before any prefix is removed), is at most 5 bytes long.
C6_KeyValidByLength ==
    pc = "keyed" =>
        ( locationKey # << >>
          <=> /\ ByteLen(ToUpper(TrimSpace(KeyCC))) = 2
              /\ ByteLen(ToUpper(TrimSpace(KeyST))) <= 5 )

\* A call that rejects a two-letter country whose state column is longer than 5
\* bytes as written and shorter once reduced.
C6_Witness ==
    /\ pc = "keyed"
    /\ KeyCC = << "U","S" >>
    /\ KeyST = << "U","S","-","C","A","L","I" >>
    /\ locationKey = << >>

NormalizedTriple ==
    << ToUpper(TrimSpace(KeyCC)),
       WithoutCountryPrefix(ToUpper(TrimSpace(KeyST))),
       TrimSpace(KeyCity) >>

HasComma(s) == \E i \in 1..Len(s) : s[i] = ","

\* C8 as stated: an accepted key, split on ",", gives back exactly the three
\* normalized inputs.
C8_RoundTripAsStated ==
    (pc = "keyed" /\ locationKey # << >>) =>
        Split(locationKey, ",") = NormalizedTriple

\* C8 amended: an accepted key, split on ",", gives back exactly the three
\* normalized inputs provided none of the three holds a "," and the state
\* holds at most one "-"; the key does not escape its delimiter, and of a
\* state with two "-" only the part between them is kept.
C8_RoundTripNoComma ==
    (pc = "keyed" /\ locationKey # << >>
        /\ \A i \in 1..3 : ~HasComma(NormalizedTriple[i])
        /\ CountOf(KeyST, "-") <= 1) =>
        Split(locationKey, ",") = NormalizedTriple

\* An accepted call on a row with a prefixed state and a padded city.
C8_Witness ==
    /\ pc = "keyed"
    /\ locationKey # << >>
    /\ KeyST = << "u","s","-","m","a" >>
    /\ KeyCity = << " ","C"," " >>
    /\ Split(locationKey, ",") = << << "U","S" >>, << "M","A" >>, << "C" >> >>

----------------------------------------------------------------------------
(* The feature of one decoded answer (main.go:253-276), display name       *)
(* included: one turn of the loop of ipToGeoJson past the Decode.          *)

\* The countries whose states are shown by their code (main.go:259).
AbbreviatedCountries ==
    { << "U","S" >>, << "C","A" >>, << "A","U" >>, << "N","Z" >>, << "G","B" >>,
      << "C","H" >> }

CommaSpace == << ",", " " >>

\* The list of main.go:259 short of its last country.
displayNameWithoutLast(fr) ==
    LET city == fr.cityName
        named ==
            IF fr.stateName # << >>
            THEN IF ByteLen(city) > 0 /\ city # fr.stateName
                 THEN IF fr.countryCode \in AbbreviatedCountries \ { << "C","H" >> }
                      THEN city \o CommaSpace \o fr.stateCode
                      ELSE city \o CommaSpace \o fr.stateName
                 ELSE fr.stateName
            ELSE city
    IN  IF named = << >> THEN fr.countryName ELSE named

\* displayName (main.go:256-270)
displayName(fr) ==
    LET city == fr.cityName
        named ==
            IF fr.stateName # << >>
            THEN IF ByteLen(city) > 0 /\ city # fr.stateName
                 THEN IF fr.countryCode \in AbbreviatedCountries
                      THEN city \o CommaSpace \o fr.stateCode
                      ELSE city \o CommaSpace \o fr.stateName
                 ELSE fr.stateName
            ELSE city
    IN  IF named = << >> THEN fr.countryName ELSE named

\* The properties of the feature (main.go:253-275).
FeatureOf(fr, ip) ==
    [ ip |-> ip,
      cciso2 |-> fr.countryCode,
      countryName |-> fr.countryName,
      displayName |-> displayName(fr),
      markerColor |-> colorForBrand(feeds[feedIdx].key),
      markerSize |-> "large",
      title |-> feeds[feedIdx].providerName ]

\* The answers of the API: userGeo of fastahResponse (main.go:181-193).
AnswerCities == { << >>, << "B","o","s" >>, << "Z","u","g" >> }

AnswerStateNames == { << >>, << "M","a","s","s" >>, << "Z","u","g" >> }

AnswerStateCodes == { << >>, << "M","A" >> }

AnswerCountryCodes ==
    AbbreviatedCountries \cup { << "F","R" >>, << "u","s" >>, << >> }

AnswerCountryNames == { << >>, << "L","a","n","d" >> }

Answers ==
    [ cityName : AnswerCities, stateName : AnswerStateNames, stateCode : AnswerStateCodes,
      countryCode : AnswerCountryCodes, countryName : AnswerCountryNames ]

InitDisplay ==
    /\ variant = "geojson"
    /\ feedIdx \in 1..NumFeeds
    /\ pc = "decoded"
    /\ rows = << >>
    /\ rowIdx = 1
    /\ locationKey = << >>
    /\ locations = EmptyMap
    /\ sampleIps = EmptyMap
    /\ visibleCountries = {}
    /\ fc = << >>
    /\ todo = {}
    /\ resp = NoResp
    /\ disk = EmptyDisk
    /\ run = 1
    /\ prev = EmptyDisk
    /\ log \in { [ NoLog EXCEPT !.api = << fr >> ] : fr \in Answers }
    /\ page = NoPage

\* main.go:253-276: the feature of the answer is built and appended.
AppendFeature ==
    /\ pc = "decoded"
    /\ pc' = "appended"
    /\ fc' = Append(fc, FeatureOf(log.api[1], << 98, 97, 0, 1 >>))
    /\ UNCHANGED << variant, feedIdx, rows, rowIdx, locationKey, locations, sampleIps,
                    visibleCountries, todo, resp, run, prev, log, disk, page >>

NextDisplay == AppendFeature

SpecDisplay == InitDisplay /\ [][NextDisplay]_vars

----------------------------------------------------------------------------
(* Claims about the display name.                                          *)

\* The answer the feature was built from.
Answer == log.api[1]

\* C16: city and state name both non-empty and different give "city, " and
\* the state code for US, CA, AU, NZ, GB, CH, the state name otherwise; an
\* empty city, or one equal to the state name, gives a non-empty state name
\* alone; an empty city and state name give the country name.
C16_DisplayNameRule ==
    pc = "appended" =>
        LET name == fc[1].displayName
            both == Answer.cityName # << >> /\ Answer.stateName # << >>
                    /\ Answer.cityName # Answer.stateName
        IN  /\ (both /\ Answer.countryCode \in
                          { << "U","S" >>, << "C","A" >>, << "A","U" >>, << "N","Z" >>,
                            << "G","B" >>, << "C","H" >> }) =>
                   name = Answer.cityName \o << ",", " " >> \o Answer.stateCode
            /\ (both /\ Answer.countryCode \notin
                          { << "U","S" >>, << "C","A" >>, << "A","U" >>, << "N","Z" >>,
                            << "G","B" >>, << "C","H" >> }) =>
                   name = Answer.cityName \o << ",", " " >> \o Answer.stateName
            /\ ((Answer.cityName = << >> \/ Answer.cityName = Answer.stateName)
                  /\ Answer.stateName # << >>) =>
                   name = Answer.stateName
            /\ (Answer.cityName = << >> /\ Answer.stateName = << >>) =>
                   name = Answer.countryName

\* The feature of a Swiss answer with a city and a different state name.
C16_Witness ==
    /\ pc = "appended"
    /\ Answer.countryCode = << "C","H" >>
    /\ Answer.cityName = << "B","o","s" >>
    /\ Answer.stateName = << "Z","u","g" >>
    /\ Answer.stateCode = << "M","A" >>
    /\ fc[1].displayName = << "B","o","s",","," ","M","A" >>

----------------------------------------------------------------------------
(* The web page (the script at main.go:296-499, which reads the GeoJSON    *)
(* samples.json, and its earlier version, part_001, which reads the flat   *)
(* one). variant tells the two apart. The page loads the two files of the  *)
(* starlink feed as the generator left them, scans the visitor's address,  *)
(* and the visitor clicks the button.                                      *)

MaxClicks == 2

\* The provider the page asks for: 'starlink', the first of feeds.
PageFeed == 1

\* The address the scan reports for the visitor.
VisitorIp == << 203, 0, 113, 7 >>

\* An address that is undefined in the script.
UndefinedIp == << >>

\* The detail of a 'locationchanged' event: ld an object or undefined, sd an
\* object or null.
Event(src, ip, ld, sd) == [ locationSrc |-> src, ip |-> ip, ld |-> ld, sd |-> sd ]

\* The state the top-level script leaves (main.go:491-499, part_001:138-145):
\* the two files asked for, the button disabled without data-opmode
\* (disableButton, main.go:363-370), the scan under way.
PageAfterScript(onStarlink) ==
    [ scan |-> "pending", meta |-> "pending", samples |-> "pending",
      disabled |-> TRUE, opmode |-> "", text |-> "Scanning...",
      onStarlink |-> onStarlink, clicks |-> 0, dispatched |-> << >> ]

\* enableButton (main.go:373-380)
enableButton(pg, newButtonText) ==
    [ pg EXCEPT !.disabled = FALSE, !.opmode = "feeling-lucky", !.text = newButtonText ]

\* updateUIwithNewLocation (main.go:414-431, part_001:109-126). Reading
\* countryName of an undefined ld throws before enableButton is reached. In
\* part_001 the test is !('sd' in event.detail), and every event has the key.
updateUIwithNewLocation(pg, event) ==
    IF variant = "geojson" /\ event.sd = "null"
    THEN IF event.ld = "undefined" THEN pg
         ELSE enableButton(pg, "Simulate a random Starlink location")
    ELSE IF event.ld = "undefined" THEN pg
         ELSE enableButton(pg, "Show me a random Starlink location")

\* document.dispatchEvent: the listener (main.go:494-497) runs at once.
Dispatch(pg, event) ==
    updateUIwithNewLocation([ pg EXCEPT !.dispatched = Append(@, event) ], event)

\* What the fetch of the scan comes to: rejected (network), an answer that is
\* not ok with or without a JSON body, an ok answer that is no JSON, an answer.
ScanOutcomes == { "rejected", "errorNoJson", "errorJson", "badJson", "answer" }

\* getIPGeolocation (main.go:332-360): an answer that is not ok becomes null,
\* and reading data.ip of null lands in the catch, as does every rejection.
getIPGeolocationGeoJson(pg, o) ==
    IF o = "answer"
    THEN Dispatch(pg, Event("real-ipapi", VisitorIp, "object",
                            IF pg.onStarlink THEN "object" ELSE "null"))
    ELSE pg

\* getIPGeolocation (part_001:37-64): the body of an answer that is not ok is
\* decoded all the same; it has no ip, no locationData and no satellite.
getIPGeolocationFlat(pg, o) ==
    CASE o = "answer" ->
           Dispatch(pg, Event("real-ipapi", VisitorIp, "object",
                              IF pg.onStarlink THEN "object" ELSE "null"))
      [] o = "errorJson" ->
           Dispatch(pg, Event("real-ipapi", UndefinedIp, "undefined", "null"))
      [] OTHER -> pg

\* The index of the last feature of samples.json whose cciso2 is cc, 0 if none.
LastFeatureOf(feats, cc) ==
    IF \E i \in 1..Len(feats) : feats[i].cciso2 = cc
    THEN CHOOSE i \in 1..Len(feats) :
            /\ feats[i].cciso2 = cc
            /\ \A j \in (i + 1)..Len(feats) : feats[j].cciso2 # cc
    ELSE 0

\* simulateRandomLocation (main.go:382-412): the pages it may leave. It throws
\* where a file was not loaded; it returns where no feature has the country;
\* it reads the property "ip-samples" of the last feature that has it, and
\* samples.length throws where the feature has no such property.
simulateRandomLocationGeoJson(pg) ==
    IF pg.meta # "loaded" \/ pg.samples # "loaded" THEN { pg }
    ELSE LET feats == disk[PageFeed].samples.data
             i     == LastFeatureOf(feats, US)
         IN  IF i = 0 THEN { pg }
             ELSE IF "ipSamples" \notin DOMAIN feats[i] THEN { pg }
             ELSE { Dispatch(pg, Event("simulated", feats[i].ipSamples[n], "object", "object")) :
                      n \in 1..Len(feats[i].ipSamples) }

\* simulateRandomLocation (part_001:86-107): samples.json is the map country
\* -> addresses; samples.length throws where the country is not in it.
simulateRandomLocationFlat(pg) ==
    IF pg.meta # "loaded" \/ pg.samples # "loaded" THEN { pg }
    ELSE LET samples == disk[PageFeed].samples.data
         IN  IF US \notin DOMAIN samples THEN { pg }
             ELSE { Dispatch(pg, Event("simulated", samples[US][n], "object", "object")) :
                      n \in 1..Len(samples[US]) }

\* The click listener (main.go:433-440); a disabled button delivers no click.
ClickResults(pg) ==
    IF pg.disabled \/ pg.opmode # "feeling-lucky" THEN { pg }
    ELSE IF variant = "geojson" THEN simulateRandomLocationGeoJson(pg)
    ELSE simulateRandomLocationFlat(pg)

\* The files of the starlink feed as the generator left them: never written,
\* or written from a feed of no country, of US, of CA, or of both.
PageCountries == { << >>, << US >>, << CA >>, << US, CA >> }

SampleOf(cc) == IF cc = US THEN << 98, 97, 0, 1 >> ELSE << 65, 181, 0, 1 >>

SamplesFileOf(ccs) ==
    IF variant = "geojson"
    THEN [ i \in 1..Len(ccs) |-> Feature(SampleOf(ccs[i]), ccs[i]) ]
    ELSE [ cc \in Range(ccs) |-> << SampleOf(cc) >> ]

PageDisks ==
    { EmptyDisk }
    \cup { [ EmptyDisk EXCEPT ![PageFeed] =
               [ dir |-> TRUE, meta |-> Written(MetaFile(ccs)),
                 samples |-> Written(SamplesFileOf(ccs)) ] ] : ccs \in PageCountries }

InitPage ==
    /\ variant \in { "geojson", "flat" }
    /\ feedIdx = PageFeed
    /\ pc = "done"
    /\ rows = << >>
    /\ rowIdx = 1
    /\ locationKey = << >>
    /\ locations = EmptyMap
    /\ sampleIps = EmptyMap
    /\ visibleCountries = {}
    /\ fc = << >>
    /\ todo = {}
    /\ resp = NoResp
    /\ disk \in PageDisks
    /\ run = 1
    /\ prev = EmptyDisk
    /\ log = NoLog
    /\ page \in { PageAfterScript(b) : b \in BOOLEAN }

NoPipelineStep ==
    UNCHANGED << variant, feedIdx, pc, rows, rowIdx, locationKey, locations, sampleIps,
                 visibleCountries, fc, todo, resp, run, prev, log, disk >>

\* initRfc8805meta (main.go:304-316): the file is loaded, or the fetch or
\* response.json() throws and the catch logs it.
MetaLoaded ==
    /\ page.meta = "pending"
    /\ \E ok \in BOOLEAN :
          page' = [ page EXCEPT !.meta =
                      IF ok /\ disk[PageFeed].meta.st = "written" THEN "loaded" ELSE "failed" ]
    /\ NoPipelineStep

\* initRfc8805sampleIp (main.go:319-330)
SamplesLoaded ==
    /\ page.samples = "pending"
    /\ \E ok \in BOOLEAN :
          page' = [ page EXCEPT !.samples =
                      IF ok /\ disk[PageFeed].samples.st = "written" THEN "loaded" ELSE "failed" ]
    /\ NoPipelineStep

\* The promise of getIPGeolocation settles.
ScanSettled ==
    /\ page.scan = "pending"
    /\ \E o \in ScanOutcomes :
          page' = [ (IF variant = "geojson" THEN getIPGeolocationGeoJson(page, o)
                     ELSE getIPGeolocationFlat(page, o))
                    EXCEPT !.scan = "settled" ]
    /\ NoPipelineStep

\* The visitor clicks the button.
Click ==
    /\ page.clicks < MaxClicks
    /\ \E pg \in ClickResults(page) : page' = [ pg EXCEPT !.clicks = page.clicks + 1 ]
    /\ NoPipelineStep

NextPage ==
    \/ MetaLoaded
    \/ SamplesLoaded
    \/ ScanSettled
    \/ Click

\* The browser runs every callback that is due; the visitor may never click.
SpecPage ==
    /\ InitPage
    /\ [][NextPage]_vars
    /\ WF_vars(MetaLoaded)
    /\ WF_vars(SamplesLoaded)
    /\ WF_vars(ScanSettled)

----------------------------------------------------------------------------
(* Claims about the web page.                                              *)

ButtonEnabled == ~page.disabled /\ page.opmode = "feeling-lucky"

\* The addresses samples.json of the provider holds.
PageSampleIps ==
    LET d == disk[PageFeed].samples.data
    IN  IF disk[PageFeed].samples.st # "written" THEN { }
        ELSE IF variant = "flat" THEN UNION { Range(d[cc]) : cc \in DOMAIN d }
        ELSE { d[i].ip : i \in 1..Len(d) }

\* C14: the button starts disabled without data-opmode; for a visitor who is
\* not on Starlink it is eventually enabled with data-opmode 'feeling-lucky',
\* whatever the scan came to; a click on the enabled button dispatches one
\* simulated 'locationchanged' event whose address is a sample of the
\* provider's samples.json; a click on the disabled button dispatches nothing.
C14_ButtonProtocolAsStated ==
    /\ (page.disabled /\ page.opmode = "")
    /\ (~page.onStarlink => <>ButtonEnabled)
    /\ [][ page'.clicks = page.clicks + 1 =>
             IF ButtonEnabled
             THEN /\ Len(page'.dispatched) = Len(page.dispatched) + 1
                  /\ page'.dispatched[Len(page'.dispatched)].locationSrc = "simulated"
                  /\ page'.dispatched[Len(page'.dispatched)].ip \in PageSampleIps
             ELSE page'.dispatched = page.dispatched ]_vars

====
